---- MODULE Spec2Model ----
(***************************************************************************)
(* modwrap: dynamic loading of a Python source file as a module.           *)
(*                                                                         *)
(* The model follows src/src/modwrap/module.py (class ModuleWrapper): the  *)
(* constructor's validation stages, _load_module with the process-wide     *)
(* registry sys.modules, _resolve_module_name / _find_project_root,        *)
(* _resolve_callable / get_class, validate_signature and get_dependencies. *)
(*                                                                         *)
(* A path is a sequence of parts; a part (a file or directory name) is the *)
(* sequence of its dot-separated components, so that "mod.py" is           *)
(* <<"mod","py">>.  A dotted module name is the sequence of its segments:  *)
(* ".".join(parts) is the concatenation of the parts' components.          *)
(***************************************************************************)
EXTENDS Naturals, Sequences, FiniteSets, TLC

VARIABLES
    markers,    \* directories that hold a pyproject.toml (filesystem state)
    pc,         \* position of the constructor: idle, type, path, validate, load, exec, done, failed
    arg,        \* module_path as passed by the caller
    allow,      \* allow_large_file
    path,       \* self._path
    selfName,   \* self._name
    cur,        \* index in units of the module being executed (0: none)
    ip,         \* index of the next statement of the body being executed
    err,        \* the exception the constructor raised
    units,      \* the module objects created so far, in creation order
    registry,   \* sys.modules restricted to the names this program inserts
    wrappers,   \* the successfully constructed ModuleWrapper instances
    log,        \* stages the running constructor has performed
    seen,       \* what the body's last lookup of its own name in sys.modules gave
    result,     \* the outcome of the last operation called on a wrapper
    loads,      \* constructor calls made so far
    sigIn       \* the (callable, contract) pair given to the signature check

vars == <<markers, pc, arg, allow, path, selfName, cur, ip, err, units,
          registry, wrappers, log, seen, result, loads, sigIn>>

(***************************************************************************)
(* Bounds                                                                  *)
(***************************************************************************)
MaxLoads == 2

(***************************************************************************)
(* Program constants                                                       *)
(***************************************************************************)
MAX_BYTES == 1000000

(***************************************************************************)
(* Paths (pathlib.PurePath)                                                *)
(***************************************************************************)
Root == <<>>

Parent(p) == IF p = <<>> THEN <<>> ELSE SubSeq(p, 1, Len(p) - 1)

PartName(p) == p[Len(p)]

\* PurePath.stem: the final part without its last suffix
Stem(p) ==
    LET n == PartName(p)
    IN  IF Len(n) > 1 THEN SubSeq(n, 1, Len(n) - 1) ELSE n

\* PurePath.suffix: the last suffix of the final part ("" when there is none)
Suffix(p) ==
    LET n == PartName(p)
    IN  IF Len(n) > 1 THEN n[Len(n)] ELSE ""

IsUnder(p, base) ==
    /\ Len(base) <= Len(p)
    /\ SubSeq(p, 1, Len(base)) = base

\* PurePath.relative_to(base) followed by with_suffix(""): the parts below
\* base, the last one without its suffix.  Defined when IsUnder(p, base).
RelativeNoSuffix(p, base) ==
    LET rel == SubSeq(p, Len(base) + 1, Len(p))
    IN  IF rel = <<>> THEN <<>>
        ELSE SubSeq(rel, 1, Len(rel) - 1) \o <<Stem(p)>>

RECURSIVE Join(_)
\* ".".join(parts)
Join(parts) ==
    IF parts = <<>> THEN <<>> ELSE Head(parts) \o Join(Tail(parts))

(***************************************************************************)
(* The filesystem the caller's paths point into                            *)
(***************************************************************************)
Dir(s) == <<s>>
PyFile(s) == <<s, "py">>

F_mod   == <<Dir("proj"), Dir("src"), Dir("pkg"), PyFile("mod")>>
F_run   == <<Dir("proj"), Dir("tools"), PyFile("run")>>
F_plain == <<Dir("alone"), PyFile("mod")>>
F_bad   == <<Dir("alone"), PyFile("bad")>>
F_exit  == <<Dir("alone"), PyFile("exit")>>
F_syn   == <<Dir("alone"), PyFile("syn")>>
F_big   == <<Dir("alone"), PyFile("big")>>
F_edge  == <<Dir("alone"), PyFile("edge")>>
F_txt   == <<Dir("alone"), <<"notes", "txt">>>>
F_deps  == <<Dir("alone"), PyFile("deps")>>
D_alone == <<Dir("alone")>>
F_none  == <<Dir("alone"), PyFile("nope")>>

(***************************************************************************)
(* Source text of the files.  A body is the sequence of top-level          *)
(* statements the interpreter runs: "effect" is any observable side        *)
(* effect, "lookup_self" reads sys.modules[__name__] (what the import      *)
(* system does for an import that names this module), "raise" raises.      *)
(***************************************************************************)
Effect == [op |-> "effect", exc |-> "none"]
LookupSelf == [op |-> "lookup_self", exc |-> "none"]
Raise(e) == [op |-> "raise", exc |-> e]

\* ast.Import with its alias names, ast.ImportFrom with module and level
\* (module <<>> stands for None, as in "from . import x")
Import(names) == [kind |-> "Import", names |-> names, module |-> <<>>, level |-> 0]
ImportFrom(m, l) == [kind |-> "ImportFrom", names |-> <<>>, module |-> m, level |-> l]

ImportsPlain ==
    << Import(<< <<"os">>, <<"sys">> >>),
       Import(<< <<"json", "decoder">> >>),
       ImportFrom(<<"requests", "api">>, 0),
       ImportFrom(<<>>, 1),
       ImportFrom(<<"os">>, 1),
       ImportFrom(<<"os", "path">>, 0),
       Import(<< <<"zzz">> >>),
       Import(<< <<"bad">> >>) >>

ImportsNs ==
    << Import(<< <<"os">> >>), Import(<< <<"nspkg", "part">> >>) >>

RegularFile(sz, ok, body, imps) ==
    [kind |-> "file", size |-> sz, syntaxOk |-> ok, body |-> body, imports |-> imps]

NoFile(k) ==
    [kind |-> k, size |-> 0, syntaxOk |-> FALSE, body |-> <<>>, imports |-> <<>>]

F_ns == <<Dir("alone"), PyFile("nsdeps")>>

FilePaths ==
    {F_mod, F_run, F_plain, F_bad, F_exit, F_syn, F_big, F_edge, F_txt, F_deps, F_ns}

\* os.stat / read_text of a canonical path
File(p) ==
    CASE p = F_mod   -> RegularFile(300, TRUE, <<LookupSelf, Effect>>, <<>>)
      [] p = F_run   -> RegularFile(120, TRUE, <<Effect>>, <<>>)
      [] p = F_plain -> RegularFile(300, TRUE, <<Effect, LookupSelf>>, <<>>)
      [] p = F_bad   -> RegularFile(80, TRUE, <<Effect, Raise("RuntimeError"), Effect>>, <<>>)
      [] p = F_exit  -> RegularFile(40, TRUE, <<Effect, LookupSelf, Raise("SystemExit")>>, <<>>)
      [] p = F_syn   -> RegularFile(60, FALSE, <<Effect>>, <<>>)
      [] p = F_big   -> RegularFile(MAX_BYTES + 1, TRUE, <<Effect>>, <<>>)
      [] p = F_edge  -> RegularFile(MAX_BYTES, TRUE, <<Effect>>, <<>>)
      [] p = F_txt   -> RegularFile(50, TRUE, <<Effect>>, <<>>)
      [] p = F_deps  -> RegularFile(200, TRUE, <<Effect>>, ImportsPlain)
      [] p = F_ns    -> RegularFile(90, TRUE, <<Effect>>, ImportsNs)
      [] p = D_alone -> NoFile("dir")
      [] OTHER       -> NoFile("missing")

\* what the caller may pass as module_path: a str/Path, or something else
PathArg(p) == [isPath |-> TRUE, p |-> p]
OtherArg == [isPath |-> FALSE, p |-> <<>>]
NoArg == [isPath |-> FALSE, p |-> <<<<"-">>>>]

Args == {PathArg(p) : p \in FilePaths \cup {D_alone, F_none}} \cup {OtherArg}

\* directories in which a pyproject.toml may be present
MarkerDirs == {Root, <<Dir("proj")>>}

(***************************************************************************)
(* Exceptions                                                              *)
(***************************************************************************)
NoError == [type |-> "none", why |-> "none", cause |-> "none"]
Error(t, w, c) == [type |-> t, why |-> w, cause |-> c]

(***************************************************************************)
(* Module-name resolution                                                  *)
(***************************************************************************)
NoRoot == [found |-> FALSE, dir |-> <<>>]
RootAt(d) == [found |-> TRUE, dir |-> d]

RECURSIVE WalkUp(_, _)
\* the while loop of _find_project_root, entered with p = d
WalkUp(d, mk) ==
    IF d = Parent(d) THEN NoRoot
    ELSE IF d \in mk THEN RootAt(d)
    ELSE WalkUp(Parent(d), mk)

FindProjectRoot(p, mk) == WalkUp(Parent(p), mk)

ResolveModuleName(p, mk) ==
    LET root == FindProjectRoot(p, mk)
        src == root.dir \o <<Dir("src")>>
    IN  IF ~root.found THEN Stem(p)
        ELSE IF IsUnder(p, src) THEN Join(RelativeNoSuffix(p, src))
        ELSE IF IsUnder(p, root.dir) THEN Join(RelativeNoSuffix(p, root.dir))
        ELSE Stem(p)

(***************************************************************************)
(* The registry (sys.modules) and the module objects                       *)
(***************************************************************************)
NoSeen == [looked |-> FALSE, found |-> FALSE, unit |-> 0]
NoResult == [op |-> "none"]
NoSigIn == [form |-> "none"]

Lookup(reg, name) ==
    IF name \in DOMAIN reg
    THEN [looked |-> TRUE, found |-> TRUE, unit |-> reg[name]]
    ELSE [looked |-> TRUE, found |-> FALSE, unit |-> 0]

\* sys.modules[name] = module
Register(reg, name, u) ==
    [n \in DOMAIN reg \cup {name} |-> IF n = name THEN u ELSE reg[n]]

\* spec_from_file_location(name, location) without an explicit loader picks
\* the loader by the location's suffix and gives None when none matches
HasLoader(p) == Suffix(p) = "py"

\* module_from_spec(spec): a new, not yet executed module object
NewModule(p, name) ==
    [path |-> p, name |-> name, state |-> "executing", effects |-> 0,
     package |-> Len(name) > 1]

(***************************************************************************)
(* Objects of a loaded module's namespace                                  *)
(***************************************************************************)
None == "None"

Obj(kind, cname, module, bases, params, ann, attrs) ==
    [kind |-> kind, cname |-> cname, module |-> module, bases |-> bases,
     params |-> params, ann |-> ann, attrs |-> attrs]

\* Python's None
NoObj == Obj("none", "", <<>>, {}, <<>>, <<>>, <<>>)

\* def f(params...) with the annotations ann (parameter name -> type)
Function(params, ann) == Obj("function", "", <<>>, {}, params, ann, <<>>)

\* a value that is not callable
Value == Obj("value", "", <<>>, {}, <<>>, <<>>, <<>>)

\* class cname(bases) whose __module__ is module
Class(cname, module, bases, attrs) == Obj("class", cname, module, bases, <<>>, <<>>, attrs)

Entry(name, obj) == [name |-> name, obj |-> obj]

\* what executing the whole body of the file at p as module modname leaves
\* in module.__dict__, in definition order
Namespace(p, modname) ==
    IF p \in {F_mod, F_plain}
    THEN << Entry("Path", Class("Path", <<"pathlib">>, {},
                      <<Entry("cwd", Function(<<"cls">>, <<>>))>>)),
            Entry("VERSION", Value),
            Entry("execute", Function(<<"command">>, ("command" :> "str"))),
            Entry("helper", Function(<<"a", "b">>, ("a" :> "int"))),
            Entry("Base", Class("Base", modname, {}, <<>>)),
            Entry("Runner", Class("Runner", modname, {"Base"},
                      <<Entry("run", Function(<<"self", "x">>, ("x" :> "str"))),
                        Entry("limit", Value)>>)) >>
    ELSE << Entry("VERSION", Value) >>

RECURSIVE GetAttr(_, _)
\* getattr(x, name, None) over the entries of x
GetAttr(entries, name) ==
    IF entries = <<>> THEN NoObj
    ELSE IF Head(entries).name = name THEN Head(entries).obj
    ELSE GetAttr(Tail(entries), name)

IsCallable(obj) == obj.kind \in {"function", "class"}

RECURSIVE GetClass(_, _, _, _)
\* get_class(name, must_inherit); "" stands for an argument left None.
\* issubclass(obj, must_inherit) is true of the class itself and of its bases
GetClass(entries, modname, name, mustInherit) ==
    IF entries = <<>> THEN NoObj
    ELSE LET obj == Head(entries).obj
         IN  IF \/ obj.kind # "class"
                \/ obj.module # modname
                \/ (name # "" /\ obj.cname # name)
                \/ (mustInherit # "" /\ obj.cname # mustInherit
                                     /\ mustInherit \notin obj.bases)
             THEN GetClass(Tail(entries), modname, name, mustInherit)
             ELSE obj

Returned(v) == [status |-> "return", type |-> "none", why |-> "none", value |-> v]
Raised(t, w) == [status |-> "raise", type |-> t, why |-> w, value |-> NoObj]

\* _resolve_callable(name); name is the sequence name.split(".") gives, so
\* that "." in name is Len(name) > 1 and name.split(".", 1) is its head and
\* the rest
ResolveCallable(ns, modname, name) ==
    LET cls == GetClass(ns, modname, Head(name), "")
        fn == IF Len(name) > 1
              THEN IF Len(name) = 2 THEN GetAttr(cls.attrs, name[2]) ELSE NoObj
              ELSE GetAttr(ns, name[1])
    IN  IF Len(name) > 1 /\ cls = NoObj THEN Raised("AttributeError", Head(name))
        ELSE IF ~IsCallable(fn) THEN Raised("TypeError", "not_callable")
        ELSE Returned(fn)

(***************************************************************************)
(* validate_signature                                                      *)
(***************************************************************************)
Types == {"str", "int"}

\* an entry of the expected contract: a key and its type (dict), a
\* (name, type) tuple or a bare name (list)
Pair(n, t) == [name |-> n, t |-> t, tuple |-> TRUE]
Bare(n) == [name |-> n, t |-> None, tuple |-> FALSE]

\* annotations.get(k)
Annotation(ann, k) == IF k \in DOMAIN ann THEN ann[k] ELSE None

InParams(fn, k) == \E i \in DOMAIN fn.params : fn.params[i] = k

RECURSIVE CheckDict(_, _)
\* the loop over expected.items()
CheckDict(fn, items) ==
    IF items = <<>> THEN Returned(NoObj)
    ELSE LET k == Head(items).name
             t == Head(items).t
         IN  IF ~InParams(fn, k) THEN Raised("TypeError", "missing")
             ELSE IF Annotation(fn.ann, k) # t THEN Raised("TypeError", "bad_type")
             ELSE CheckDict(fn, Tail(items))

RECURSIVE CheckList_alwaystyped(_, _)
\* the loop over the list comparing the annotation even when no type is given
CheckList_alwaystyped(fn, items) ==
    IF items = <<>> THEN Returned(NoObj)
    ELSE LET name == Head(items).name
             t == IF Head(items).tuple THEN Head(items).t ELSE None
         IN  IF ~InParams(fn, name) THEN Raised("TypeError", "missing")
             ELSE IF Annotation(fn.ann, name) # t
                  THEN Raised("TypeError", "bad_type")
             ELSE CheckList_alwaystyped(fn, Tail(items))

RECURSIVE CheckList(_, _)
\* the loop over the items of the list
CheckList(fn, items) ==
    IF items = <<>> THEN Returned(NoObj)
    ELSE LET name == Head(items).name
             t == IF Head(items).tuple THEN Head(items).t ELSE None
         IN  IF ~InParams(fn, name) THEN Raised("TypeError", "missing")
             ELSE IF t # None /\ Annotation(fn.ann, name) # t
                  THEN Raised("TypeError", "bad_type")
             ELSE CheckList(fn, Tail(items))

ValidateSignature(ns, modname, funcName, form, expected) ==
    LET r == ResolveCallable(ns, modname, funcName)
    IN  IF r.status = "raise" THEN r
        ELSE IF form = "dict" THEN CheckDict(r.value, expected)
        ELSE IF form = "list" THEN CheckList(r.value, expected)
        ELSE Raised("TypeError", "not_dict_or_list")

(***************************************************************************)
(* ModuleWrapper.__init__, one action per stage                            *)
(***************************************************************************)
TypeInit ==
    /\ markers \in SUBSET MarkerDirs
    /\ pc = "idle"
    /\ arg = NoArg
    /\ allow = FALSE
    /\ path = <<>>
    /\ selfName = <<>>
    /\ cur = 0
    /\ ip = 0
    /\ err = NoError
    /\ units = <<>>
    /\ registry = <<>>
    /\ wrappers = {}
    /\ log = <<>>
    /\ seen = NoSeen
    /\ result = NoResult
    /\ loads = 0

Init == TypeInit /\ sigIn = NoSigIn

\* the caller evaluates ModuleWrapper(module_path, allow_large_file)
Call(a, al) ==
    /\ pc = "idle"
    /\ loads < MaxLoads
    /\ pc' = "type"
    /\ arg' = a
    /\ allow' = al
    /\ loads' = loads + 1
    /\ path' = <<>>
    /\ selfName' = <<>>
    /\ cur' = 0
    /\ ip' = 0
    /\ err' = NoError
    /\ log' = <<>>
    /\ seen' = NoSeen
    /\ result' = NoResult
    /\ UNCHANGED <<markers, units, registry, wrappers, sigIn>>

Fail(e) ==
    /\ pc' = "failed"
    /\ err' = e

CheckType ==
    /\ pc = "type"
    /\ log' = Append(log, "type")
    /\ IF ~arg.isPath
       THEN Fail(Error("TypeError", "not_path", "none"))
       ELSE pc' = "path" /\ err' = err
    /\ UNCHANGED <<markers, arg, allow, path, selfName, cur, ip, units,
                   registry, wrappers, seen, result, loads, sigIn>>

\* CheckPath without the size ceiling
CheckPath_nosize ==
    /\ pc = "path"
    /\ log' = Append(log, "stat")
    /\ LET f == File(arg.p)
       IN  IF f.kind = "missing"
           THEN Fail(Error("FileNotFoundError", "not_found", "none")) /\ path' = path
           ELSE IF f.kind # "file"
           THEN Fail(Error("IsADirectoryError", "not_file", "none")) /\ path' = arg.p
           ELSE pc' = "validate" /\ err' = err /\ path' = arg.p
    /\ UNCHANGED <<markers, arg, allow, selfName, cur, ip, units,
                   registry, wrappers, seen, result, loads, sigIn>>

CheckPath ==
    /\ pc = "path"
    /\ log' = Append(log, "stat")
    /\ LET f == File(arg.p)
       IN  IF f.kind = "missing"
           THEN Fail(Error("FileNotFoundError", "not_found", "none")) /\ path' = path
           ELSE IF f.kind # "file"
           THEN Fail(Error("IsADirectoryError", "not_file", "none")) /\ path' = arg.p
           ELSE IF ~allow /\ f.size > MAX_BYTES
           THEN Fail(Error("ValueError", "too_large", "none")) /\ path' = arg.p
           ELSE pc' = "validate" /\ err' = err /\ path' = arg.p
    /\ UNCHANGED <<markers, arg, allow, selfName, cur, ip, units,
                   registry, wrappers, seen, result, loads, sigIn>>

ValidateSource ==
    /\ pc = "validate"
    /\ log' = Append(log, "parse")
    /\ IF ~File(path).syntaxOk
       THEN Fail(Error("ValueError", "bad_syntax", "SyntaxError")) /\ selfName' = selfName
       ELSE pc' = "load" /\ err' = err /\ selfName' = Stem(path)
    /\ UNCHANGED <<markers, arg, allow, path, cur, ip, units,
                   registry, wrappers, seen, result, loads, sigIn>>

\* LoadModule that executes the module without inserting it in sys.modules
LoadModule_unregistered ==
    /\ pc = "load"
    /\ LET name == ResolveModuleName(path, markers)
       IN  IF ~HasLoader(path)
           THEN /\ Fail(Error("ImportError", "no_loader", "none"))
                /\ UNCHANGED <<units, registry, cur, ip, log>>
           ELSE /\ units' = Append(units, NewModule(path, name))
                /\ registry' = registry
                /\ cur' = Len(units) + 1
                /\ ip' = 1
                /\ log' = Append(log, "register")
                /\ pc' = "exec"
                /\ err' = err
    /\ UNCHANGED <<markers, arg, allow, path, selfName, wrappers, seen,
                   result, loads, sigIn>>

LoadModule ==
    /\ pc = "load"
    /\ LET name == ResolveModuleName(path, markers)
       IN  IF ~HasLoader(path)
           THEN /\ Fail(Error("ImportError", "no_loader", "none"))
                /\ UNCHANGED <<units, registry, cur, ip, log>>
           ELSE /\ units' = Append(units, NewModule(path, name))
                /\ registry' = Register(registry, name, Len(units) + 1)
                /\ cur' = Len(units) + 1
                /\ ip' = 1
                /\ log' = Append(log, "register")
                /\ pc' = "exec"
                /\ err' = err
    /\ UNCHANGED <<markers, arg, allow, path, selfName, wrappers, seen,
                   result, loads, sigIn>>

LogExec == IF ip = 1 THEN Append(log, "exec") ELSE log

\* exec_module is called bare: what the body raises leaves __init__ as it is
BodyFailure(exc) == Error(exc, "body", "none")

\* the body raises and the failed module is taken out of sys.modules again
RaiseFromBody_rollback(exc) ==
    /\ Fail(BodyFailure(exc))
    /\ units' = [units EXCEPT ![cur].state = "aborted"]
    /\ registry' = [n \in DOMAIN registry \ {units[cur].name} |-> registry[n]]

\* the body raises: nothing the constructor did is undone
RaiseFromBody(exc) ==
    /\ Fail(BodyFailure(exc))
    /\ units' = [units EXCEPT ![cur].state = "aborted"]
    /\ registry' = registry

\* spec.loader.exec_module(module): one statement of the body
ExecStatement ==
    /\ pc = "exec"
    /\ ip <= Len(File(path).body)
    /\ log' = LogExec
    /\ LET st == File(path).body[ip]
       IN  CASE st.op = "effect" ->
                  /\ units' = [units EXCEPT ![cur].effects = @ + 1]
                  /\ ip' = ip + 1
                  /\ UNCHANGED <<pc, err, seen, registry>>
             [] st.op = "lookup_self" ->
                  /\ seen' = Lookup(registry, units[cur].name)
                  /\ ip' = ip + 1
                  /\ UNCHANGED <<pc, err, units, registry>>
             [] st.op = "raise" ->
                  /\ RaiseFromBody(st.exc)
                  /\ UNCHANGED <<ip, seen>>
    /\ UNCHANGED <<markers, arg, allow, path, selfName, cur,
                   wrappers, result, loads, sigIn>>

\* the body ran to its end: _load_module returns, __init__ returns
ExecReturn ==
    /\ pc = "exec"
    /\ ip > Len(File(path).body)
    /\ log' = LogExec
    /\ units' = [units EXCEPT ![cur].state = "complete"]
    /\ wrappers' = wrappers \cup {[path |-> path, name |-> selfName, unit |-> cur]}
    /\ pc' = "done"
    /\ UNCHANGED <<markers, arg, allow, path, selfName, cur, ip, err,
                   registry, seen, result, loads, sigIn>>

\* the caller goes on, with the wrapper or after handling the exception
Return ==
    /\ pc \in {"done", "failed"}
    /\ pc' = "idle"
    /\ arg' = NoArg
    /\ allow' = FALSE
    /\ path' = <<>>
    /\ selfName' = <<>>
    /\ cur' = 0
    /\ ip' = 0
    /\ err' = NoError
    /\ log' = <<>>
    /\ seen' = NoSeen
    /\ UNCHANGED <<markers, units, registry, wrappers, result, loads, sigIn>>

Construct ==
    \/ \E a \in Args, al \in BOOLEAN : Call(a, al)
    \/ CheckType
    \/ CheckPath
    \/ ValidateSource
    \/ LoadModule
    \/ ExecStatement
    \/ ExecReturn
    \/ Return

(***************************************************************************)
(* Operations on a constructed wrapper                                     *)
(***************************************************************************)
ModuleName(w) == units[w.unit].name

QueryNames ==
    { <<"execute">>, <<"VERSION">>, <<"nothing">>, <<"Runner">>,
      <<"Runner", "run">>, <<"Runner", "limit">>, <<"Runner", "nothing">>,
      <<"Path", "cwd">>, <<"Ghost", "run">>, <<"", "run">> }

GetCallable(w, name) ==
    /\ pc = "idle"
    /\ result' = [op |-> "get_callable", w |-> w, name |-> name,
                  out |-> ResolveCallable(Namespace(w.path, ModuleName(w)),
                                          ModuleName(w), name)]
    /\ UNCHANGED <<markers, pc, arg, allow, path, selfName, cur, ip, err,
                   units, registry, wrappers, log, seen, loads, sigIn>>

\* the names the walk over the syntax tree adds to imports
RECURSIVE CollectImports(_)
CollectImports(nodes) ==
    IF nodes = <<>> THEN {}
    ELSE LET node == Head(nodes)
             here == IF node.kind = "Import"
                     THEN {Head(node.names[i]) : i \in DOMAIN node.names}
                     ELSE IF node.module # <<>> /\ node.level = 0
                          THEN {Head(node.module)}
                          ELSE {}
         IN  here \cup CollectImports(Tail(nodes))

\* How the host resolves a top-level name that sys.modules does not hold,
\* by the __file__ of the module found: "under" sys.base_prefix,
\* "elsewhere", "absent" (a built-in module has no __file__), "none" (a
\* namespace package has __file__ None), or "missing" (ImportError)
HostImport(name) ==
    CASE name \in {"os", "json"} -> "under"
      [] name = "requests" -> "elsewhere"
      [] name = "sys" -> "absent"
      [] name = "nspkg" -> "none"
      [] OTHER -> "missing"

\* __import__(name) then sys.modules.get(name): a module this program
\* registered is found first, and its __file__ is the plugin's path
ImportedFile(reg, name) ==
    IF <<name>> \in DOMAIN reg THEN "elsewhere" ELSE HostImport(name)

\* order of the names' strings
NameOrder == <<"bad", "json", "nspkg", "os", "requests", "sys", "zzz">>
Rank(n) == CHOOSE i \in DOMAIN NameOrder : NameOrder[i] = n

RECURSIVE Sorted(_)
\* sorted(S)
Sorted(S) ==
    IF S = {} THEN <<>>
    ELSE LET m == CHOOSE x \in S : \A y \in S : Rank(x) <= Rank(y)
         IN  <<m>> \o Sorted(S \ {m})

Deps(status, type, std, third, missing) ==
    [status |-> status, type |-> type, stdlib |-> std, third_party |-> third,
     missing |-> missing]

Dependencies(reg, p) ==
    LET imports == CollectImports(File(p).imports)
        stdlib == {n \in imports : ImportedFile(reg, n) = "under"}
        third == {n \in imports : ImportedFile(reg, n) \in {"elsewhere", "absent"}}
        missing == {n \in imports : ImportedFile(reg, n) = "missing"}
    IN  IF \E n \in imports : ImportedFile(reg, n) = "none"
        THEN Deps("raise", "AttributeError", <<>>, <<>>, <<>>)
        ELSE Deps("return", "none", Sorted(stdlib), Sorted(third), Sorted(missing))

GetDependencies(w) ==
    /\ pc = "idle"
    /\ result' = [op |-> "get_dependencies", w |-> w, name |-> <<>>,
                  out |-> Dependencies(registry, w.path)]
    /\ UNCHANGED <<markers, pc, arg, allow, path, selfName, cur, ip, err,
                   units, registry, wrappers, log, seen, loads, sigIn>>

Operate ==
    \/ \E w \in wrappers, n \in QueryNames : GetCallable(w, n)
    \/ \E w \in wrappers : GetDependencies(w)

Next == Construct \/ Operate

Spec == Init /\ [][Next]_vars

(***************************************************************************)
(* The signature check applied to the callables of a loaded plugin: the    *)
(* state is the one reached by loading F_plain with no marker on the       *)
(* filesystem, and the inputs are the name and the expected contract.      *)
(***************************************************************************)
MaxContract == 2

ContractNames == {"command", "a", "b", "x", "extra"}

SigNames == { <<"execute">>, <<"helper">>, <<"Runner", "run">>, <<"VERSION">> }

DictItems == {Pair(n, t) : n \in ContractNames, t \in Types}
ListItems == {Pair(n, t) : n \in ContractNames, t \in Types \cup {None}}
                 \cup {Bare(n) : n \in ContractNames}

SeqsUpTo(S, n) == UNION {[1..k -> S] : k \in 0..n}

\* a dict holds a key once
DictContracts ==
    {q \in SeqsUpTo(DictItems, MaxContract) :
        \A i, j \in DOMAIN q : i # j => q[i].name # q[j].name}

ListContracts == SeqsUpTo(ListItems, MaxContract)

SigInputs ==
    {[form |-> "dict", name |-> n, expected |-> e] : n \in SigNames, e \in DictContracts}
    \cup {[form |-> "list", name |-> n, expected |-> e] : n \in SigNames, e \in ListContracts}
    \cup {[form |-> "other", name |-> n, expected |-> <<>>] : n \in SigNames}

PlainUnit ==
    [path |-> F_plain, name |-> <<"mod">>, state |-> "complete", effects |-> 1,
     package |-> FALSE]

PlainWrapper == [path |-> F_plain, name |-> <<"mod">>, unit |-> 1]

InitSig ==
    /\ markers = {}
    /\ pc = "idle"
    /\ arg = NoArg
    /\ allow = FALSE
    /\ path = <<>>
    /\ selfName = <<>>
    /\ cur = 0
    /\ ip = 0
    /\ err = NoError
    /\ units = <<PlainUnit>>
    /\ registry = Register(<<>>, <<"mod">>, 1)
    /\ wrappers = {PlainWrapper}
    /\ log = <<>>
    /\ seen = NoSeen
    /\ result = NoResult
    /\ loads = 1
    /\ sigIn \in SigInputs

ValidateSignatureCall(w) ==
    /\ pc = "idle"
    /\ sigIn # NoSigIn
    /\ result = NoResult
    /\ result' = [op |-> "validate_signature", w |-> w, name |-> sigIn.name,
                  out |-> ValidateSignature(Namespace(w.path, ModuleName(w)),
                                            ModuleName(w), sigIn.name,
                                            sigIn.form, sigIn.expected)]
    /\ UNCHANGED <<markers, pc, arg, allow, path, selfName, cur, ip, err,
                   units, registry, wrappers, log, seen, loads, sigIn>>

NextSig == \E w \in wrappers : ValidateSignatureCall(w)

SpecSig == InitSig /\ [][NextSig]_vars

(***************************************************************************)
(* The earlier loader, src/modwrap/core.py: it checks the extension, does  *)
(* not parse first, does not use sys.modules, names the module by the      *)
(* file's stem and wraps what the body raises.                             *)
(***************************************************************************)
NoneArg == [isPath |-> FALSE, p |-> <<<<"None">>>>]

CoreArgs == Args \cup {NoneArg}

CoreCall(a) ==
    /\ pc = "idle"
    /\ loads < MaxLoads
    /\ pc' = "core_check"
    /\ arg' = a
    /\ allow' = FALSE
    /\ loads' = loads + 1
    /\ path' = <<>>
    /\ selfName' = <<>>
    /\ cur' = 0
    /\ ip' = 0
    /\ err' = NoError
    /\ log' = <<>>
    /\ seen' = NoSeen
    /\ result' = NoResult
    /\ UNCHANGED <<markers, units, registry, wrappers, sigIn>>

CoreCheck ==
    /\ pc = "core_check"
    /\ log' = <<"type", "stat">>
    /\ LET f == File(arg.p)
       IN  IF arg = NoneArg
           THEN Fail(Error("ValueError", "none_path", "none"))
                /\ UNCHANGED <<path, selfName>>
           ELSE IF ~arg.isPath
           THEN Fail(Error("TypeError", "not_path", "none"))
                /\ UNCHANGED <<path, selfName>>
           ELSE IF f.kind = "missing"
           THEN Fail(Error("FileNotFoundError", "not_found", "none"))
                /\ UNCHANGED <<path, selfName>>
           ELSE IF f.kind # "file"
           THEN Fail(Error("IsADirectoryError", "not_file", "none"))
                /\ path' = arg.p /\ selfName' = selfName
           ELSE IF Suffix(arg.p) # "py"
           THEN Fail(Error("ValueError", "bad_extension", "none"))
                /\ path' = arg.p /\ selfName' = selfName
           ELSE pc' = "core_load" /\ err' = err
                /\ path' = arg.p /\ selfName' = Stem(arg.p)
    /\ UNCHANGED <<markers, arg, allow, cur, ip, units, registry, wrappers,
                   seen, result, loads, sigIn>>

CoreLoadModule ==
    /\ pc = "core_load"
    /\ units' = Append(units, NewModule(path, selfName))
    /\ cur' = Len(units) + 1
    /\ ip' = 1
    /\ pc' = "core_exec"
    /\ UNCHANGED <<markers, arg, allow, path, selfName, err, registry,
                   wrappers, log, seen, result, loads, sigIn>>

\* except Exception: SystemExit is no Exception and passes through
CoreBodyFailure(exc) ==
    IF exc = "SystemExit" THEN Error(exc, "body", "none")
    ELSE Error("ImportError", "body", exc)

\* exec_module compiles the source, then runs it, inside the try
CoreExecStatement ==
    /\ pc = "core_exec"
    /\ ip <= Len(File(path).body)
    /\ IF ~File(path).syntaxOk
       THEN /\ Fail(CoreBodyFailure("SyntaxError"))
            /\ units' = [units EXCEPT ![cur].state = "aborted"]
            /\ UNCHANGED <<ip, seen, log>>
       ELSE /\ log' = IF ip = 1 THEN Append(log, "exec") ELSE log
            /\ LET st == File(path).body[ip]
               IN  CASE st.op = "effect" ->
                          /\ units' = [units EXCEPT ![cur].effects = @ + 1]
                          /\ ip' = ip + 1
                          /\ UNCHANGED <<pc, err, seen>>
                     [] st.op = "lookup_self" ->
                          /\ seen' = Lookup(registry, units[cur].name)
                          /\ ip' = ip + 1
                          /\ UNCHANGED <<pc, err, units>>
                     [] st.op = "raise" ->
                          /\ Fail(CoreBodyFailure(st.exc))
                          /\ units' = [units EXCEPT ![cur].state = "aborted"]
                          /\ UNCHANGED <<ip, seen>>
    /\ UNCHANGED <<markers, arg, allow, path, selfName, cur, registry,
                   wrappers, result, loads, sigIn>>

CoreExecReturn ==
    /\ pc = "core_exec"
    /\ ip > Len(File(path).body)
    /\ units' = [units EXCEPT ![cur].state = "complete"]
    /\ wrappers' = wrappers \cup {[path |-> path, name |-> selfName, unit |-> cur]}
    /\ pc' = "done"
    /\ UNCHANGED <<markers, arg, allow, path, selfName, cur, ip, err,
                   registry, log, seen, result, loads, sigIn>>

NextCore ==
    \/ \E a \in CoreArgs : CoreCall(a)
    \/ CoreCheck
    \/ CoreLoadModule
    \/ CoreExecStatement
    \/ CoreExecReturn
    \/ Return

SpecCore == Init /\ [][NextCore]_vars

\* core.py rejects a regular file that is not .py before anything else
CoreExtensionRejected ==
    /\ (arg.isPath /\ File(arg.p).kind = "file" /\ Suffix(arg.p) # "py") =>
          /\ pc \in {"core_check", "failed"}
          /\ pc = "failed" => err = Error("ValueError", "bad_extension", "none")
    /\ \A i \in DOMAIN units : Suffix(units[i].path) = "py"

\* core.py wraps what the body raises in ImportError, unless it is no Exception
CoreBodyExceptionWrapped ==
    (pc = "failed" /\ err.why = "body" /\ err.type # "SystemExit") =>
        /\ err.type = "ImportError"
        /\ err.cause \in {"RuntimeError", "SyntaxError"}

\* core.py never inserts anything in sys.modules
CoreNeverRegisters == registry = <<>>

(***************************************************************************)
(* Properties of construction                                              *)
(***************************************************************************)
Range(q) == {q[i] : i \in DOMAIN q}

IsPrefix(q, r) == Len(q) <= Len(r) /\ SubSeq(r, 1, Len(q)) = q

StageOrder == <<"type", "stat", "parse", "register", "exec">>

C2_StagedFailFast ==
    /\ IsPrefix(log, StageOrder)
    /\ pc = "failed" =>
          CASE err.why = "not_path" -> log = <<"type">>
            [] err.why \in {"not_found", "not_file", "too_large"} ->
                  log = <<"type", "stat">>
            [] err.why \in {"bad_syntax", "no_loader"} ->
                  log = <<"type", "stat", "parse">>
            [] OTHER -> log = StageOrder
    /\ \A i \in DOMAIN units : File(units[i].path).syntaxOk
    /\ \A n \in DOMAIN registry : File(units[registry[n]].path).syntaxOk
    /\ (arg.isPath /\ ~File(arg.p).syntaxOk) => pc \notin {"load", "exec", "done"}
    /\ (arg.isPath /\ File(arg.p).size > MAX_BYTES /\ ~allow) =>
          /\ "parse" \notin Range(log)
          /\ pc \in {"type", "path", "failed"}

C2_Witness ==
    /\ pc = "failed"
    /\ err = Error("ValueError", "bad_syntax", "SyntaxError")
    /\ log = <<"type", "stat", "parse">>
    /\ Len(units) > 0

\* C3: when the body raises, the constructor raises ImportError whose cause
\* is the exception the body raised.
C3_BodyExceptionWrapped ==
    (pc = "failed" /\ err.why = "body") =>
        /\ err.type = "ImportError"
        /\ err.cause = File(path).body[ip].exc

\* C7: an existing regular file whose suffix is not .py is rejected for its
\* extension, and is never parsed, registered or executed.
C7_ExtensionRejected ==
    /\ (arg.isPath /\ File(arg.p).kind = "file" /\ Suffix(arg.p) # "py") =>
          /\ "parse" \notin Range(log)
          /\ pc = "failed" => err.why = "bad_extension"
    /\ \A i \in DOMAIN units : Suffix(units[i].path) = "py"

\* C9: a name once inserted in sys.modules stays a key of it in every later
\* state.
C9_RegistryOnlyGrows == [][DOMAIN registry \subseteq DOMAIN registry']_vars

C9_Witness ==
    /\ pc = "failed"
    /\ err.why = "body"
    /\ units[cur].state = "aborted"
    /\ units[cur].name \in DOMAIN registry
    /\ registry[units[cur].name] = cur
    /\ Cardinality(DOMAIN registry) > 1

\* C10: the name a wrapper reports is the name its module carries, which is
\* the key the module was inserted under in sys.modules.
C10_NameIsRegistryKey ==
    \A w \in wrappers : w.name = units[w.unit].name

\* C4: the name of a module is the stem when no ancestor directory holds the
\* marker, else the dotted path below root/src when the file is under it,
\* else the dotted path below root, root being the nearest ancestor
\* directory that holds the marker.
RECURSIVE NearestMarked(_, _)
NearestMarked(d, mk) ==
    IF d \in mk THEN RootAt(d)
    ELSE IF d = <<>> THEN NoRoot
    ELSE NearestMarked(Parent(d), mk)

SpecifiedName(p, mk) ==
    LET root == NearestMarked(Parent(p), mk)
        src == root.dir \o <<Dir("src")>>
    IN  IF ~root.found THEN Stem(p)
        ELSE IF IsUnder(p, src) THEN Join(RelativeNoSuffix(p, src))
        ELSE Join(RelativeNoSuffix(p, root.dir))

C4_QualifiedName ==
    \A i \in DOMAIN units : units[i].name = SpecifiedName(units[i].path, markers)

(***************************************************************************)
(* Properties of the operations on a wrapper                               *)
(***************************************************************************)
\* the state InitSig starts from is one the constructor reaches
PlainLoaded ==
    /\ pc = "idle" /\ markers = {} /\ units = <<PlainUnit>>
    /\ registry = Register(<<>>, <<"mod">>, 1)
    /\ wrappers = {PlainWrapper} /\ loads = 1

\* C5: for a name that resolves to a callable, validate_signature raises
\* TypeError exactly when some name of the contract is not a declared
\* parameter, or the contract gives a type for a name and the parameter's
\* annotation is not that type; this for the dict and for the list form.
C5_SignatureContract ==
    (result.op = "validate_signature" /\ sigIn.form \in {"dict", "list"}) =>
        LET ns == Namespace(result.w.path, ModuleName(result.w))
            r == ResolveCallable(ns, ModuleName(result.w), sigIn.name)
            fn == r.value
            items == sigIn.expected
            GivesType(it) == it.tuple /\ it.t # None
            Fails(it) ==
                \/ \A i \in DOMAIN fn.params : fn.params[i] # it.name
                \/ /\ GivesType(it)
                   /\ \/ it.name \notin DOMAIN fn.ann
                      \/ fn.ann[it.name] # it.t
        IN  r.status = "return" =>
               /\ result.out.status \in {"return", "raise"}
               /\ result.out.status = "raise" <=>
                     \E i \in DOMAIN items : Fails(items[i])
               /\ result.out.status = "raise" => result.out.type = "TypeError"

C5_Witness ==
    /\ result.op = "validate_signature"
    /\ sigIn.form = "list"
    /\ sigIn.name = <<"helper">>
    /\ sigIn.expected = <<Bare("b"), Pair("a", "str")>>
    /\ result.out = Raised("TypeError", "bad_type")

\* C6: get_callable raises AttributeError for a bare name the namespace
\* does not hold and for a Container that is no class defined in the module,
\* raises TypeError for a name that resolves to a value that is not
\* callable, and returns the callable otherwise.
C6_GetCallableErrors ==
    result.op = "get_callable" =>
        LET modname == ModuleName(result.w)
            ns == Namespace(result.w.path, modname)
            n == result.name
            out == result.out
            Held(entries, k) == \E i \in DOMAIN entries : entries[i].name = k
            OwnClass(k) ==
                \E i \in DOMAIN ns :
                    /\ ns[i].name = k
                    /\ ns[i].obj.kind = "class"
                    /\ ns[i].obj.module = modname
            target ==
                IF Len(n) = 1 THEN GetAttr(ns, n[1])
                ELSE IF OwnClass(n[1]) /\ Len(n) = 2
                     THEN GetAttr(GetAttr(ns, n[1]).attrs, n[2])
                     ELSE NoObj
        IN  /\ (Len(n) = 1 /\ ~Held(ns, n[1])) =>
                   out.status = "raise" /\ out.type = "AttributeError"
            /\ (Len(n) > 1 /\ ~OwnClass(n[1])) =>
                   out.status = "raise" /\ out.type = "AttributeError"
            /\ target.kind = "value" =>
                   out.status = "raise" /\ out.type = "TypeError"
            /\ target.kind \in {"function", "class"} => out = Returned(target)

\* C8: get_dependencies returns three sorted, pairwise disjoint sequences
\* that together hold exactly the top-level names of the absolute imports;
\* a name is in stdlib iff it resolves to a file under the base prefix, in
\* third_party iff it resolves otherwise, in missing iff it does not resolve.
C8_DependencyPartition ==
    result.op = "get_dependencies" =>
        LET out == result.out
            imps == File(result.w.path).imports
            names ==
                UNION {{Head(imps[i].names[j]) : j \in DOMAIN imps[i].names} :
                          i \in {k \in DOMAIN imps : imps[k].kind = "Import"}}
                \cup {Head(imps[i].module) :
                    i \in {k \in DOMAIN imps : /\ imps[k].kind = "ImportFrom"
                                               /\ imps[k].level = 0
                                               /\ imps[k].module # <<>>}}
            Ascending(q) == \A i, j \in DOMAIN q : i < j => Rank(q[i]) < Rank(q[j])
            resolves(n) == ImportedFile(registry, n) # "missing"
        IN  /\ out.status = "return"
            /\ Ascending(out.stdlib) /\ Ascending(out.third_party) /\ Ascending(out.missing)
            /\ Range(out.stdlib) \cap Range(out.third_party) = {}
            /\ Range(out.stdlib) \cap Range(out.missing) = {}
            /\ Range(out.third_party) \cap Range(out.missing) = {}
            /\ Range(out.stdlib) \cup Range(out.third_party) \cup Range(out.missing) = names
            /\ \A n \in names :
                  /\ n \in Range(out.stdlib) <=>
                        resolves(n) /\ ImportedFile(registry, n) = "under"
                  /\ n \in Range(out.third_party) <=>
                        resolves(n) /\ ImportedFile(registry, n) # "under"
                  /\ n \in Range(out.missing) <=> ~resolves(n)

\* the same, for the sources none of whose imports is a namespace package
DependencyPartitionOfFiles ==
    (result.op = "get_dependencies" /\ result.w.path # F_ns) => C8_DependencyPartition

====
